---- MODULE Spec2Model ----
(***************************************************************************)
(* A model of the tools registered by MCPServer.setup_tools                *)
(* (kubernetes-mcp/mcp_server.py).  Every tool invocation is one action:   *)
(* the handler runs from its first line to its return (or to the exception *)
(* that leaves it).  What the Kubernetes API server, kubectl, helm and     *)
(* gcloud answer is drawn nondeterministically: per call-out an "oracle"   *)
(* value says whether the call-out behaves normally or raises.             *)
(*                                                                         *)
(* Python's None is the empty tuple <<>>, a present value x is <<x>>; for  *)
(* string arguments None is the reserved string NoneStr.                   *)
(***************************************************************************)
EXTENDS Integers, Sequences, FiniteSets, TLC

VARIABLES
    deployments,   \* cluster: namespace -> None (no Deployment "web") or Some(match_labels)
    services,      \* cluster: namespace -> None (no Service "web-svc") or Some(service)
    host,          \* the machine: tool ("kubectl", "helm") -> how its binary behaves
    last,          \* the last tool invocation: tool, args, result, call-outs made
    phase,         \* how many invocations have been made (SpecTwice, SpecAll)
    helm,          \* helm and the cluster behind it: repos, namespaces, releases
    kubeconfig,    \* ~/.kube/config: the file's shape, its contexts, the current context
    prev,          \* the invocation before the last one (SpecTwice, SpecGke)
    selected,      \* history: the context last made current, and by which tool
    clusters,      \* SpecBinding: context -> the Deployments of that context's cluster
    dependencies_available,  \* MCPServer.dependencies_available, set by __init__
    running        \* SpecRace: caller -> how far its expose_deployment_with_service is

vars ==
    <<deployments, services, host, helm, kubeconfig, last, phase, prev, selected, clusters,
      dependencies_available, running>>

None == <<>>
Some(x) == <<x>>
NoneStr == "<None>"

----------------------------------------------------------------------------
(* Domains the inputs are drawn from.                                      *)

DeploymentName == "web"
ServiceName == "web-svc"
Namespaces == {"default"}

\* A dict of labels is a set of <<key, value>> pairs with distinct keys.
L0 == {}
L1 == {<<"app", "web">>}
L2 == {<<"tier", "fe">>}

\* match_labels of a Deployment: None (matchExpressions only), {} or a dict
MatchLabels == {None, Some(L0), Some(L1)}

\* The arguments of expose_deployment_with_service that vary.  deployment_name and
\* service_name are always given (DeploymentName, ServiceName), protocol is "TCP".
\* With target_port omitted only port varies.
ExposeArgs ==
    {a \in [namespace : Namespaces \cup {NoneStr},
            service_type : {NoneStr, "NodePort"},
            target_port : {None, Some(8080)},
            port : {None, Some(80)},
            selector_labels : {None, Some(L2)}] :
        a.target_port = None => (a.service_type = NoneStr /\ a.selector_labels = None)}

\* What a call-out does besides what the cluster's state dictates:
\*   "ok"         the API server answers from its state (200, 404, 409)
\*   "api_error"  the API server answers another error (ApiException, 500)
\*   "conn_error" the request raises something that is no ApiException
Faults == {"ok", "api_error", "conn_error"}
\* The first fault ends a handler, so an oracle has at most one.
AtMostOneFault(o) == Cardinality({f \in DOMAIN o : o[f] # "ok"}) <= 1
ExposeOracle ==
    {o \in [config : {"ok", "error"}, dep : Faults, read : Faults, write : Faults] :
        AtMostOneFault(o)}

----------------------------------------------------------------------------
(* The Kubernetes client and API server, as the handler sees them: an       *)
(* answer is [kind, status, value]; kind "ok" carries the object read or    *)
(* written, "ApiException" the HTTP status, "ValueError" is the client's    *)
(* own rejection of a None for a required parameter (no request is sent),   *)
(* "Exception" is any other exception.                                      *)

Answer(kind, status, value) == [kind |-> kind, status |-> status, value |-> value]

Faulty(fault) ==
    IF fault = "api_error" THEN Answer("ApiException", 500, None)
    ELSE Answer("Exception", 0, None)

\* One request as it is logged: the operation, its namespace, the body sent.
Call(op, ns, body, ans) ==
    [op |-> op, namespace |-> ns, body |-> body, kind |-> ans.kind, status |-> ans.status]

\* AppsV1Api.read_namespaced_deployment(name=DeploymentName, namespace=ns)
ApiReadDeployment(deps, ns, fault) ==
    IF ns = NoneStr THEN Answer("ValueError", 0, None)
    ELSE IF fault # "ok" THEN Faulty(fault)
    ELSE IF deps[ns] = None THEN Answer("ApiException", 404, None)
    ELSE Answer("ok", 200, deps[ns])

\* CoreV1Api.read_namespaced_service(name=ServiceName, namespace=ns)
ApiReadService(svcs, ns, fault) ==
    IF ns = NoneStr THEN Answer("ValueError", 0, None)
    ELSE IF fault # "ok" THEN Faulty(fault)
    ELSE IF svcs[ns] = None THEN Answer("ApiException", 404, None)
    ELSE Answer("ok", 200, svcs[ns])

\* A V1ServicePort as the server stores it: targetPort defaults to port.
StoredPort(p) ==
    [protocol |-> p.protocol, port |-> p.port[1],
     target_port |-> IF p.target_port = None THEN p.port[1] ELSE p.target_port[1]]

\* A V1Service body as the server stores it on create: the client drops the
\* fields that are None, the server defaults the type to ClusterIP.
StoredService(body) ==
    [name |-> body.name, namespace |-> body.namespace, labels |-> body.labels,
     type |-> IF body.type = NoneStr THEN "ClusterIP" ELSE body.type,
     selector |-> body.selector,
     ports |-> {StoredPort(body.ports[i]) : i \in DOMAIN body.ports}]

Keys(d) == {kv[1] : kv \in d}
\* Strategic merge of two maps: the patch's keys win, the others stay.
MergeMap(old, new) == {kv \in old : kv[1] \notin Keys(new)} \cup new

\* The Service after a strategic-merge patch with a V1Service body: maps are
\* merged by key, the ports list by its merge key "port", None fields are absent
\* from the patch and leave the stored value alone.
PatchedService(old, body) ==
    LET new == StoredService(body) IN
    [name |-> old.name, namespace |-> old.namespace,
     labels |-> MergeMap(old.labels, new.labels),
     type |-> IF body.type = NoneStr THEN old.type ELSE body.type,
     selector |-> MergeMap(old.selector, new.selector),
     ports |-> {p \in old.ports : p.port \notin {q.port : q \in new.ports}} \cup new.ports]

\* CoreV1Api.create_namespaced_service(namespace=ns, body=body): the answer and
\* the Services afterwards.  Creating over an existing Service is a 409.
ApiCreateService(svcs, ns, body, fault) ==
    IF fault # "ok" THEN [ans |-> Faulty(fault), services |-> svcs]
    ELSE IF svcs[ns] # None
        THEN [ans |-> Answer("ApiException", 409, None), services |-> svcs]
    ELSE [ans |-> Answer("ok", 201, Some(StoredService(body))),
          services |-> [svcs EXCEPT ![ns] = Some(StoredService(body))]]

\* CoreV1Api.patch_namespaced_service(name=ServiceName, namespace=ns, body=body).
\* Patching a Service that does not exist is a 404.
ApiPatchService(svcs, ns, body, fault) ==
    IF fault # "ok" THEN [ans |-> Faulty(fault), services |-> svcs]
    ELSE IF svcs[ns] = None
        THEN [ans |-> Answer("ApiException", 404, None), services |-> svcs]
    ELSE LET s == PatchedService(svcs[ns][1], body) IN
         [ans |-> Answer("ok", 200, Some(s)), services |-> [svcs EXCEPT ![ns] = Some(s)]]

----------------------------------------------------------------------------
(* Results.  A tool returns a dict; one that lets an exception escape       *)
(* returns nothing, which is the record Raised(e).                          *)

Ok(payload) == [success |-> TRUE, payload |-> payload]
Err(error) == [success |-> FALSE, error |-> error]
Raised(exc) == [raised |-> exc]

----------------------------------------------------------------------------
(* expose_deployment_with_service                                          *)

\* `if not selector_labels`: None and the empty dict are both falsy.
Falsy(labels) == labels = None \/ labels = Some({})

\* SelectorLabels with the roles swapped: the Deployment's labels win when it has any.
SelectorLabels_DeploymentFirst(a, match_labels) ==
    IF match_labels # None THEN match_labels ELSE a.selector_labels

\* The selector the Service gets: the caller's, else the Deployment's match_labels.
SelectorLabels(a, match_labels) ==
    IF a.selector_labels = None THEN match_labels ELSE a.selector_labels

\* ServicePort that ignores the port given.
ServicePort_TargetOnly(a) == a.target_port

\* `if port is None: port = target_port`
ServicePort(a) == IF a.port = None THEN a.target_port ELSE a.port

\* service_body = client.V1Service(...)
ServiceBody(a, selector) ==
    [name |-> ServiceName, namespace |-> a.namespace,
     labels |-> {<<"app", DeploymentName>>},
     selector |-> selector[1],
     ports |-> <<[protocol |-> "TCP", port |-> ServicePort(a), target_port |-> a.target_port]>>,
     type |-> a.service_type]

\* ExistingService that forgets what the read found.
ExistingService_Forgotten(rd) == None

\* existing_service after the existence read: the Service read, None on a 404.
ExistingService(rd) == IF rd.kind = "ok" THEN rd.value ELSE None

\* WriteService without the existence branch: always a create.
WriteService_AlwaysCreate(existing, svcs, ns, body, fault) ==
    LET w == ApiCreateService(svcs, ns, body, fault) IN
    [op |-> "create_namespaced_service", ans |-> w.ans, services |-> w.services]

\* `if existing_service: patch ... else: create ...`: the request made, its
\* answer and the Services afterwards.
WriteService(existing, svcs, ns, body, fault) ==
    IF existing # None
    THEN LET w == ApiPatchService(svcs, ns, body, fault) IN
         [op |-> "patch_namespaced_service", ans |-> w.ans, services |-> w.services]
    ELSE LET w == ApiCreateService(svcs, ns, body, fault) IN
         [op |-> "create_namespaced_service", ans |-> w.ans, services |-> w.services]

\* What the tool reports of created_service.
ServiceView(s) ==
    [name |-> s.name, namespace |-> s.namespace, type |-> s.type,
     ports |-> s.ports, selector |-> s.selector]

Outcome(result, calls, svcs) == [result |-> result, calls |-> calls, services |-> svcs]

\* Steps 2 and 3 of the handler: the body, the existence read, create or patch.
ExposeService(a, o, selector, calls, svcs) ==
    IF ServicePort(a) = None
    THEN \* V1ServicePort(port=None) raises ValueError: the outer except Exception
         Outcome(Err("str(e)"), calls, svcs)
    ELSE
    LET body == ServiceBody(a, selector)
        rd == ApiReadService(svcs, a.namespace, o.read)
        calls2 == Append(calls, Call("read_namespaced_service", a.namespace, None, rd))
    IN  IF rd.kind = "ApiException" /\ rd.status # 404
        THEN Outcome(Err("Kubernetes API error"), calls2, svcs)
        ELSE IF rd.kind \notin {"ok", "ApiException"}
        THEN Outcome(Err("str(e)"), calls2, svcs)
        ELSE
        LET w == WriteService(ExistingService(rd), svcs, a.namespace, body, o.write)
            calls3 == Append(calls2, Call(w.op, a.namespace, Some(body), w.ans))
        IN  IF w.ans.kind = "ok"
            THEN Outcome(Ok(ServiceView(w.ans.value[1])), calls3, w.services)
            ELSE IF w.ans.kind = "ApiException"
            THEN Outcome(Err("Kubernetes API error"), calls3, w.services)
            ELSE Outcome(Err("str(e)"), calls3, w.services)

\* ReadFailure without the 404 case.
ReadFailure_No404(dep) ==
    IF dep.kind = "ApiException" THEN "Error reading deployment"
    ELSE "Failed to determine selector labels"

\* The error a failed read of the Deployment is turned into: the 404, the other
\* ApiExceptions, and `except Exception` for the rest.
ReadFailure(dep) ==
    IF dep.kind = "ApiException"
    THEN IF dep.status = 404 THEN "Deployment not found in namespace"
         ELSE "Error reading deployment"
    ELSE "Failed to determine selector labels"

\* The whole handler: config.load_kube_config(), step 1 (read the Deployment,
\* settle the selector), then ExposeService.
expose_deployment_with_service(a, o, deps, svcs) ==
    IF o.config # "ok" THEN Outcome(Err("str(e)"), <<>>, svcs)
    ELSE
    LET dep == ApiReadDeployment(deps, a.namespace, o.dep)
        calls == IF dep.kind = "ValueError" THEN <<>>
                 ELSE <<Call("read_namespaced_deployment", a.namespace, None, dep)>>
    IN  IF dep.kind # "ok"
        THEN Outcome(Err(ReadFailure(dep)), calls, svcs)
        ELSE IF a.selector_labels = None /\ Falsy(dep.value[1])
        THEN \* raise ValueError, caught by the inner `except Exception`
             Outcome(Err("Failed to determine selector labels"), calls, svcs)
        ELSE ExposeService(a, o, SelectorLabels(a, dep.value[1]), calls, svcs)

\* One invocation as it is remembered: the tool, its arguments, what it returned,
\* the requests it made and the Services before and after it.
Invocation(tool, a, out, before, after) ==
    [tool |-> tool, args |-> a, result |-> out.result, calls |-> out.calls,
     before |-> before, after |-> after]

ExposeWith(a, o) ==
    LET out == expose_deployment_with_service(a, o, deployments, services) IN
    /\ services' = out.services
    /\ last' = Invocation("expose_deployment_with_service", a, out, services, out.services)
    /\ UNCHANGED <<deployments, host, helm, kubeconfig>>

Expose == \E a \in ExposeArgs, o \in ExposeOracle : ExposeWith(a, o)

----------------------------------------------------------------------------
(* create_deployment and delete_resource: the tools that change what       *)
(* expose_deployment_with_service finds in the cluster.                     *)

SimpleOracle == {o \in [config : {"ok", "error"}, call : Faults] : AtMostOneFault(o)}

\* create_deployment(name=DeploymentName, image, replicas, namespace): the
\* Deployment's selector is match_labels={"app": name}.
create_deployment(a, o, deps) ==
    IF o.config # "ok" THEN [result |-> Err("str(e)"), calls |-> <<>>, deployments |-> deps]
    ELSE
    LET ans == IF o.call # "ok" THEN Faulty(o.call)
               ELSE IF deps[a.namespace] # None THEN Answer("ApiException", 409, None)
               ELSE Answer("ok", 201, None)
        calls == <<Call("create_namespaced_deployment", a.namespace, None, ans)>>
    IN  IF ans.kind = "ok"
        THEN [result |-> Ok("created"), calls |-> calls,
              deployments |-> [deps EXCEPT ![a.namespace] = Some(Some({<<"app", DeploymentName>>}))]]
        ELSE [result |-> Err("str(e)"), calls |-> calls, deployments |-> deps]

CreateDeployment ==
    \E a \in [namespace : Namespaces], o \in SimpleOracle :
        LET out == create_deployment(a, o, deployments) IN
        /\ deployments' = out.deployments
        /\ last' = Invocation("create_deployment", a, out, services, services)
        /\ UNCHANGED <<services, host, helm, kubeconfig>>

ResourceTypes == {"pod", "deployment", "service", "configmap"}

\* delete_resource(resource_type, name, namespace): pods are not part of the
\* model's cluster, so the pod named is one that exists.
delete_resource(a, o, deps, svcs) ==
    LET out(result, calls, d, s) ==
            [result |-> result, calls |-> calls, deployments |-> d, services |-> s]
        exists == CASE a.resource_type = "deployment" -> deps[a.namespace] # None
                    [] a.resource_type = "service" -> svcs[a.namespace] # None
                    [] OTHER -> TRUE
        ans == IF o.call # "ok" THEN Faulty(o.call)
               ELSE IF ~exists THEN Answer("ApiException", 404, None)
               ELSE Answer("ok", 200, None)
        op == CASE a.resource_type = "pod" -> "delete_namespaced_pod"
                [] a.resource_type = "deployment" -> "delete_namespaced_deployment"
                [] OTHER -> "delete_namespaced_service"
        calls == <<Call(op, a.namespace, None, ans)>>
    IN  IF o.config # "ok" THEN out(Err("str(e)"), <<>>, deps, svcs)
        ELSE IF a.resource_type \notin {"pod", "deployment", "service"}
        THEN out(Err("Unsupported resource type"), <<>>, deps, svcs)
        ELSE IF ans.kind # "ok" THEN out(Err("str(e)"), calls, deps, svcs)
        ELSE out(Ok("deleted"), calls,
                 IF a.resource_type = "deployment"
                     THEN [deps EXCEPT ![a.namespace] = None] ELSE deps,
                 IF a.resource_type = "service"
                     THEN [svcs EXCEPT ![a.namespace] = None] ELSE svcs)

DeleteResource ==
    \E a \in [resource_type : ResourceTypes, namespace : Namespaces], o \in SimpleOracle :
        LET out == delete_resource(a, o, deployments, services) IN
        /\ deployments' = out.deployments
        /\ services' = out.services
        /\ last' = Invocation("delete_resource", a, out, services, out.services)
        /\ UNCHANGED <<host, helm, kubeconfig>>

----------------------------------------------------------------------------
(* Spec: the cluster-changing tools, invoked one after another.            *)

\* A Service made by someone else before the server ran.
LegacyService(ns) ==
    [name |-> ServiceName, namespace |-> ns, labels |-> {<<"team", "ops">>},
     type |-> "ClusterIP", selector |-> {<<"app", "old">>},
     ports |-> {[protocol |-> "TCP", port |-> 443, target_port |-> 8443]}]

NoInvocation ==
    [tool |-> "none", args |-> <<>>, result |-> Ok("none"), calls |-> <<>>,
     before |-> <<>>, after |-> <<>>]

ClusterInit ==
    /\ deployments \in [Namespaces -> {None} \cup {Some(m) : m \in MatchLabels}]
    /\ services \in {[ns \in Namespaces |-> IF ns \in S THEN Some(LegacyService(ns)) ELSE None] :
                        S \in SUBSET Namespaces}

\* How a binary behaves when the server looks for it and runs it:
\*   "missing"  shutil.which finds nothing
\*   "ok"       it runs and exits 0
\*   "broken"   it runs and exits non-zero (CalledProcessError)
\*   "vanished" which finds it, running it raises FileNotFoundError
\*   "noexec"   which finds it, running it raises another OSError
\*              (PermissionError, "Exec format error")
BinaryStates == {"missing", "ok", "broken", "vanished", "noexec"}
HostTools == {"kubectl", "helm"}          \* what _check_dependencies looks for
Binaries == HostTools \cup {"gcloud"}

AllOk == [t \in Binaries |-> "ok"]

\* The context names of the model: those connect_to_gke can be asked for, and one
\* of another kind of cluster.
GkeArgs == [project_id : {"proj"}, zone : {"us-a"}, cluster_name : {"c1", "c2"}]
ContextName(a) == "gke_" \o a.project_id \o "_" \o a.zone \o "_" \o a.cluster_name
Contexts == {ContextName(a) : a \in GkeArgs} \cup {"minikube"}

\* ~/.kube/config.  shape: "absent" (no file), "empty" (a file yaml loads as None),
\* "nocontexts" (a mapping without the key contexts), "nullcontexts" (contexts:
\* null), "corrupt" (no YAML), "list" (contexts is a list of named entries).
Kubeconfig(shape, contexts, current) ==
    [shape |-> shape, contexts |-> contexts, current |-> current]
KubeconfigShapes == {"absent", "empty", "nocontexts", "nullcontexts", "corrupt", "list"}
Kubeconfigs ==
    {Kubeconfig(sh, {}, "") : sh \in KubeconfigShapes} \cup
    {Kubeconfig("list", cs, cur) : cs \in SUBSET Contexts \ {{}}, cur \in Contexts \cup {""}}

\* A kubeconfig's current-context names one of its contexts, or is unset.
WellFormed(kc) == kc.current = "" \/ kc.current \in kc.contexts

MinikubeOnly == Kubeconfig("list", {"minikube"}, "minikube")

\* helm with no repository and no release, a cluster with the namespace default.
NoHelm == [repos |-> {}, namespaces |-> {"default"}, releases |-> {}]

(* Subprocesses.  A call-out that is a subprocess is logged like a request: *)
(* op is the command, body its standard output when it has exited 0, kind   *)
(* "ok", "CalledProcessError" (non-zero exit), "FileNotFoundError" or       *)
(* "OSError" (it could not be started), status the exit status.             *)

CmdCall(cmd, ns, kind, output) ==
    [op |-> cmd, namespace |-> ns, body |-> output, kind |-> kind,
     status |-> IF kind = "ok" THEN 0 ELSE IF kind = "CalledProcessError" THEN 1 ELSE 0 - 1]

\* MCPServer._check_tool_availability(tool): [value, calls], value TRUE, FALSE
\* or, when an exception leaves the method, the exception's name.
check_tool_availability(tool, h) ==
    LET version == IF tool = "kubectl" THEN "kubectl version --client" ELSE "helm version"
        ran(kind) == <<CmdCall(version, NoneStr, kind, None)>>
    IN  CASE h[tool] = "missing" -> [value |-> Some(FALSE), raised |-> "", calls |-> <<>>]
          [] h[tool] = "ok" -> [value |-> Some(TRUE), raised |-> "", calls |-> ran("ok")]
          [] h[tool] = "broken" ->
                 [value |-> Some(FALSE), raised |-> "", calls |-> ran("CalledProcessError")]
          [] h[tool] = "vanished" ->
                 [value |-> Some(FALSE), raised |-> "", calls |-> ran("FileNotFoundError")]
          [] OTHER -> \* not a SubprocessError, not a FileNotFoundError: not caught
                 [value |-> None, raised |-> "OSError", calls |-> ran("OSError")]

\* MCPServer._check_dependencies as __init__ calls it: value is what __init__
\* stores in dependencies_available; raised says an exception left it, and with
\* it __init__ (a tool that is not available is only warned of).
check_dependencies(h) ==
    [value |-> \A tool \in HostTools : check_tool_availability(tool, h).value = Some(TRUE),
     raised |-> \E tool \in HostTools : check_tool_availability(tool, h).raised # ""]

(* What the invocations so far have made the current context.  context is  *)
(* the context last made current and by the tool that did so ("none": by   *)
(* no invocation yet); switched is the context of the last switch_context  *)
(* that succeeded; previous is the context that was current before.        *)
NoSelection ==
    [context |-> NoneStr, by |-> "none", switched |-> NoneStr, previous |-> NoneStr]
Selection(sel, inv) ==
    IF inv.tool = "switch_context" /\ inv.result.success
    THEN [context |-> inv.args.context_name, by |-> "switch_context",
          switched |-> inv.args.context_name, previous |-> inv.before.current]
    ELSE IF inv.tool = "connect_to_gke" /\ inv.result.success /\ inv.calls # <<>>
    THEN [context |-> ContextName(inv.args), by |-> "connect_to_gke",
          switched |-> sel.switched, previous |-> inv.before.current]
    ELSE sel

\* The specifications with one cluster keep no cluster per context.
NoClusters == <<>>

\* The specifications whose invocations run one after another have none running.
NoneRunning == <<>>

Init ==
    /\ ClusterInit
    /\ host = AllOk
    /\ helm = NoHelm
    /\ kubeconfig = MinikubeOnly
    /\ last = NoInvocation
    /\ phase = 0
    /\ prev = NoInvocation
    /\ selected = NoSelection
    /\ dependencies_available = check_dependencies(host).value
    /\ running = NoneRunning
    /\ clusters = NoClusters

\* An invocation that is neither counted nor remembered beyond `last`.
Plain(Tool) ==
    /\ Tool
    /\ UNCHANGED <<phase, prev, selected, clusters, dependencies_available, running>>

Next == Plain(Expose) \/ Plain(CreateDeployment) \/ Plain(DeleteResource)

Spec == Init /\ [][Next]_vars

----------------------------------------------------------------------------
(* SpecTwice: expose_deployment_with_service run twice in sequence with    *)
(* the same arguments, nothing else touching the cluster in between.       *)

FirstRun ==
    /\ phase = 0
    /\ \E a \in ExposeArgs, o \in ExposeOracle : ExposeWith(a, o)
    /\ prev' = last
    /\ phase' = 1
    /\ UNCHANGED <<selected, clusters, dependencies_available, running>>

SecondRun ==
    /\ phase = 1
    /\ \E o \in ExposeOracle : ExposeWith(last.args, o)
    /\ prev' = last
    /\ phase' = 2
    /\ UNCHANGED <<selected, clusters, dependencies_available, running>>

NextTwice == FirstRun \/ SecondRun

SpecTwice == Init /\ [][NextTwice]_vars

----------------------------------------------------------------------------
(* get_resource_usage                                                      *)

\* What `kubectl top ... -o json` does: exit 0 with JSON, exit 0 with text that is
\* no JSON, or a non-zero exit; the plain command: exit 0 or non-zero.  (The
\* binary has just been run by the availability check, so it can be started.)
JsonOutcomes == {"json", "text", "fail"}
TextOutcomes == {"text", "fail"}
UsageOracle == [pod_json : JsonOutcomes, pod_text : TextOutcomes,
                node_json : JsonOutcomes, node_text : TextOutcomes]
UsageArgs == [namespace : {NoneStr, "default"}]

\* The call-out a `kubectl top` run is logged as.
TopCall(cmd, ns, outcome) ==
    IF outcome = "fail" THEN CmdCall(cmd, ns, "CalledProcessError", None)
    ELSE CmdCall(cmd, ns, "ok", Some(outcome))

\* CaughtByFallback without json.JSONDecodeError.
CaughtByFallback_ExitOnly(outcome) == outcome = "fail"

\* except (subprocess.CalledProcessError, json.JSONDecodeError): the outcomes of
\* the JSON command that the inner except catches.
CaughtByFallback(outcome) == outcome \in {"fail", "text"}

\* One `try: json ... except: text` block: [data, error, calls]; error is "" or
\* the exception that leaves the block.
TopWithFallback(what, ns, json_outcome, text_outcome) ==
    LET j == TopCall("kubectl top " \o what \o " -o json", ns, json_outcome)
        t == TopCall("kubectl top " \o what, ns, text_outcome)
    IN  IF json_outcome = "json" THEN [data |-> "json", error |-> "", calls |-> <<j>>]
        ELSE IF ~CaughtByFallback(json_outcome)
        THEN [data |-> "", error |-> IF json_outcome = "fail" THEN "CalledProcessError"
                                      ELSE "JSONDecodeError", calls |-> <<j>>]
        ELSE IF text_outcome = "fail"
        THEN [data |-> "", error |-> "CalledProcessError", calls |-> <<j, t>>]
        ELSE [data |-> "text_output", error |-> "", calls |-> <<j, t>>]

\* The outer excepts of get_resource_usage.
UsageError(exc) ==
    IF exc = "CalledProcessError" THEN "Failed to get resource usage" ELSE "Unexpected error"

get_resource_usage(a, o, h) ==
    LET avail == check_tool_availability("kubectl", h)
        pods == TopWithFallback("pods", a.namespace, o.pod_json, o.pod_text)
        nodes == TopWithFallback("nodes", NoneStr, o.node_json, o.node_text)
    IN  IF avail.value = None
        THEN [result |-> Raised(avail.raised), calls |-> avail.calls]
        ELSE IF avail.value = Some(FALSE)
        THEN [result |-> Err("kubectl is not available on this system"), calls |-> avail.calls]
        ELSE IF pods.error # ""
        THEN [result |-> Err(UsageError(pods.error)), calls |-> avail.calls \o pods.calls]
        ELSE IF nodes.error # ""
        THEN [result |-> Err(UsageError(nodes.error)),
              calls |-> avail.calls \o pods.calls \o nodes.calls]
        ELSE [result |-> Ok([pod_usage |-> pods.data, node_usage |-> nodes.data]),
              calls |-> avail.calls \o pods.calls \o nodes.calls]

GetResourceUsage ==
    \E a \in UsageArgs, o \in UsageOracle :
        LET out == get_resource_usage(a, o, host) IN
        /\ last' = Invocation("get_resource_usage", a, out, services, services)
        /\ UNCHANGED <<deployments, services, host, helm, kubeconfig>>

\* Binaries are installed, removed and replaced while the server runs.
HostChanges ==
    /\ \E t \in Binaries, b \in BinaryStates : host' = [host EXCEPT ![t] = b]
    /\ UNCHANGED <<deployments, services, helm, kubeconfig, last>>

\* A cluster with one Deployment and no Service.
PlainCluster ==
    /\ deployments = [ns \in Namespaces |-> Some(Some(L1))]
    /\ services = [ns \in Namespaces |-> None]

(* SpecUsage: get_resource_usage on a machine whose binaries change.       *)
InitUsage ==
    /\ PlainCluster
    /\ host = AllOk
    /\ helm = NoHelm
    /\ kubeconfig = MinikubeOnly
    /\ last = NoInvocation
    /\ phase = 0
    /\ prev = NoInvocation
    /\ selected = NoSelection
    /\ dependencies_available = check_dependencies(host).value
    /\ running = NoneRunning
    /\ clusters = NoClusters

NextUsage == Plain(GetResourceUsage) \/ Plain(HostChanges)

SpecUsage == InitUsage /\ [][NextUsage]_vars

----------------------------------------------------------------------------
(* The kubeconfig tools: connect_to_gke, switch_context,                   *)
(* get_current_context.                                                    *)

\* How a run of a binary ends: it cannot be started, or it exits non-zero (of
\* itself, or because the oracle says so), or it exits 0.
CmdFaults == {"ok", "fail"}
RunKind(binary, h, fault) ==
    CASE h[binary] \in {"missing", "vanished"} -> "FileNotFoundError"
      [] h[binary] = "noexec" -> "OSError"
      [] h[binary] = "broken" \/ fault = "fail" -> "CalledProcessError"
      [] OTHER -> "ok"

KubeOutcome(result, calls, kc) == [result |-> result, calls |-> calls, kubeconfig |-> kc]

\* ExistingContexts reading a key the kubeconfig does not have.
ExistingContexts_WrongKey(kc) ==
    CASE kc.shape = "corrupt" -> [error |-> "YAMLError", names |-> {}]
      [] kc.shape = "empty" -> [error |-> "AttributeError", names |-> {}]
      [] OTHER -> [error |-> "", names |-> {}]

\* What reading the contexts of ~/.kube/config gives connect_to_gke: the names, or
\* the exception raised on the way (yaml.safe_load, kubeconfig.get, the list
\* comprehension).  No file: no names.
ExistingContexts(kc) ==
    CASE kc.shape = "corrupt" -> [error |-> "YAMLError", names |-> {}]
      [] kc.shape = "empty" -> [error |-> "AttributeError", names |-> {}]
      [] kc.shape = "nullcontexts" -> [error |-> "TypeError", names |-> {}]
      [] OTHER -> [error |-> "", names |-> kc.contexts]

\* `gcloud container clusters get-credentials` on success: the kubeconfig gets the
\* cluster's context, which becomes the current one.
GcloudGetCredentials(kc, a) ==
    Kubeconfig("list", kc.contexts \cup {ContextName(a)}, ContextName(a))

\* The excepts of connect_to_gke around the gcloud run.
GcloudError(kind) ==
    CASE kind = "FileNotFoundError" -> "gcloud not found"
      [] kind = "CalledProcessError" -> "e.stderr"
      [] OTHER -> "str(e)"

connect_to_gke(a, o, kc, h) ==
    LET existing == ExistingContexts(kc)
        kind == RunKind("gcloud", h, o)
        calls == <<CmdCall("gcloud container clusters get-credentials", a.cluster_name,
                           kind, None)>>
    IN  IF existing.error # "" THEN KubeOutcome(Err("str(e)"), <<>>, kc)
        ELSE IF ContextName(a) \in existing.names
        THEN KubeOutcome(Ok("Already logged in"), <<>>, kc)
        ELSE IF kind = "ok"
        THEN KubeOutcome(Ok("Kubeconfig updated"), calls, GcloudGetCredentials(kc, a))
        ELSE KubeOutcome(Err(GcloudError(kind)), calls, kc)

\* A kubeconfig tool's invocation: the kubeconfig is what is remembered as
\* before and after.
KubeInvoke(tool, a, out) ==
    /\ kubeconfig' = out.kubeconfig
    /\ last' = Invocation(tool, a, out, kubeconfig, out.kubeconfig)
    /\ UNCHANGED <<deployments, services, host, helm>>

ConnectToGke ==
    \E a \in GkeArgs, o \in CmdFaults :
        KubeInvoke("connect_to_gke", a, connect_to_gke(a, o, kubeconfig, host))

\* switch_context whose kubectl reports success and writes nothing.
switch_context_NotWritten(a, o, kc, h) ==
    LET known == kc.shape = "list" /\ a.context_name \in kc.contexts
        kind == RunKind("kubectl", h, IF known THEN o ELSE "fail")
        calls == <<CmdCall("kubectl config use-context", a.context_name, kind, None)>>
    IN  IF kind = "ok" THEN KubeOutcome(Ok("Switched context"), calls, kc)
        ELSE KubeOutcome(Err("str(e)"), calls, kc)

\* switch_context(context_name): `kubectl config use-context` exits non-zero for
\* a name the kubeconfig does not list.
switch_context(a, o, kc, h) ==
    LET known == kc.shape = "list" /\ a.context_name \in kc.contexts
        kind == RunKind("kubectl", h, IF known THEN o ELSE "fail")
        calls == <<CmdCall("kubectl config use-context", a.context_name, kind, None)>>
    IN  IF kind = "ok"
        THEN KubeOutcome(Ok("Switched context"), calls,
                         Kubeconfig(kc.shape, kc.contexts, a.context_name))
        ELSE KubeOutcome(Err("str(e)"), calls, kc)

SwitchContext ==
    \E a \in [context_name : Contexts], o \in CmdFaults :
        KubeInvoke("switch_context", a, switch_context(a, o, kubeconfig, host))

\* get_current_context(): `kubectl config current-context` exits non-zero when
\* no current context is set.
get_current_context(o, kc, h) ==
    LET set == kc.shape = "list" /\ kc.current # ""
        kind == RunKind("kubectl", h, IF set THEN o ELSE "fail")
        calls == <<CmdCall("kubectl config current-context", NoneStr, kind,
                           IF kind = "ok" THEN Some(kc.current) ELSE None)>>
    IN  IF kind = "ok" THEN KubeOutcome(Ok(kc.current), calls, kc)
        ELSE KubeOutcome(Err("str(e)"), calls, kc)

GetCurrentContext ==
    \E o \in CmdFaults :
        KubeInvoke("get_current_context", <<>>, get_current_context(o, kubeconfig, host))

(* SpecGke: the kubeconfig tools, from any kubeconfig and any state of the *)
(* gcloud binary.                                                          *)
InitGke ==
    /\ PlainCluster
    /\ \E b \in BinaryStates : host = [AllOk EXCEPT !["gcloud"] = b]
    /\ helm = NoHelm
    /\ kubeconfig \in {kc \in Kubeconfigs : WellFormed(kc)}
    /\ last = NoInvocation
    /\ phase = 0
    /\ prev = NoInvocation
    /\ selected = NoSelection
    /\ dependencies_available = check_dependencies(host).value
    /\ running = NoneRunning
    /\ clusters = NoClusters

\* An invocation that is remembered as the one before the next.
Remembered(Tool) ==
    /\ Tool
    /\ prev' = last
    /\ selected' = Selection(selected, last')
    /\ UNCHANGED <<phase, clusters, dependencies_available, running>>

NextGke == Remembered(ConnectToGke) \/ Remembered(SwitchContext) \/ Remembered(GetCurrentContext)

SpecGke == InitGke /\ [][NextGke]_vars

----------------------------------------------------------------------------
(* The Helm tools.  A string that the code splits or searches is a tuple   *)
(* of tokens ("bitnami=https://x" is <<"bitnami", "=", "https://x">>).     *)

RECURSIVE Join(_)
Join(tokens) == IF tokens = <<>> THEN "" ELSE Head(tokens) \o Join(Tail(tokens))

\* str.split(sep): the pieces between the separators, empty pieces included.
RECURSIVE Split(_, _)
Split(tokens, sep) ==
    IF tokens = <<>> THEN <<"">>
    ELSE LET rest == Split(Tail(tokens), sep) IN
         IF Head(tokens) = sep THEN <<"">> \o rest
         ELSE <<Head(tokens) \o Head(rest)>> \o Tail(rest)

Contains(tokens, ch) == \E i \in DOMAIN tokens : tokens[i] = ch

Repos == {None, Some(<<>>), Some(<<"bitnami">>),
          Some(<<"bitnami", "=", "https://charts.example">>),
          Some(<<"a", "=", "b", "=", "c">>)}
Charts == {<<"nginx">>, <<"stable", "/", "nginx">>}
ReleaseName == "rel"
HelmArgs == [chart : Charts, namespace : {"default", "apps"}, repo : Repos]
\* How each command of one invocation ends; at most one of them fails.
HelmOracle ==
    {o \in [repo_add : CmdFaults, repo_update : CmdFaults, ns_get : CmdFaults,
            ns_create : CmdFaults, run : CmdFaults] :
        Cardinality({f \in DOMAIN o : o[f] # "ok"}) <= 1}

\* `if repo:` is false for None and for the empty string.
RepoGiven(repo) == repo # None /\ repo # Some(<<>>)

\* RepoWellFormed accepting any repo with an '='.
RepoWellFormed_AnyEquals(repo) == Len(Split(repo[1], "=")) >= 2

\* repo.split('=') has exactly two pieces.
RepoWellFormed(repo) == Len(Split(repo[1], "=")) = 2

\* The chart helm is given: prefixed with the repo's name when a repo is given
\* and the chart has no '/'.
ChartRef(a) ==
    IF RepoGiven(a.repo) /\ ~Contains(a.chart, "/")
    THEN Split(a.repo[1], "=")[1] \o "/" \o Join(a.chart)
    ELSE Join(a.chart)

HelmOutcome(result, calls, hs) == [result |-> result, calls |-> calls, helm |-> hs]

\* What leaves a `try` whose except names subprocess.CalledProcessError only.
HelmError(kind, what) == IF kind = "CalledProcessError" THEN what ELSE "Unexpected error"

\* The repo step of install_helm_chart and upgrade_helm_chart: [error, calls, helm].
HelmRepoStep(a, o, h, hs) ==
    LET parts == Split(a.repo[1], "=")
        add == RunKind("helm", h, o.repo_add)
        update == RunKind("helm", h, o.repo_update)
        c1 == <<CmdCall("helm repo add", NoneStr, add, None)>>
        c2 == Append(c1, CmdCall("helm repo update", NoneStr, update, None))
        added == [hs EXCEPT !.repos = @ \cup {parts[1]}]
    IN  IF ~RepoGiven(a.repo) THEN [error |-> "", calls |-> <<>>, helm |-> hs]
        ELSE IF ~RepoWellFormed(a.repo)
        THEN [error |-> "Repository format should be 'repo_name=repo_url'",
              calls |-> <<>>, helm |-> hs]
        ELSE IF add # "ok"
        THEN [error |-> HelmError(add, "Failed to add Helm repo"), calls |-> c1, helm |-> hs]
        ELSE IF update # "ok"
        THEN [error |-> HelmError(update, "Failed to add Helm repo"), calls |-> c2,
              helm |-> added]
        ELSE [error |-> "", calls |-> c2, helm |-> added]

\* The namespace step of install_helm_chart: `kubectl get namespace`, and
\* `kubectl create namespace` when that exits non-zero.
HelmNamespaceStep(a, o, h, hs) ==
    LET there == a.namespace \in hs.namespaces
        get == RunKind("kubectl", h, IF there THEN o.ns_get ELSE "fail")
        create == RunKind("kubectl", h, IF there THEN "fail" ELSE o.ns_create)
        c1 == <<CmdCall("kubectl get namespace", a.namespace, get, None)>>
        c2 == Append(c1, CmdCall("kubectl create namespace", a.namespace, create, None))
    IN  IF get = "ok" THEN [error |-> "", calls |-> c1, helm |-> hs]
        ELSE IF get # "CalledProcessError"
        THEN [error |-> "Unexpected error", calls |-> c1, helm |-> hs]
        ELSE IF create = "ok"
        THEN [error |-> "", calls |-> c2,
              helm |-> [hs EXCEPT !.namespaces = @ \cup {a.namespace}]]
        ELSE [error |-> HelmError(create, "Failed to create namespace"), calls |-> c2,
              helm |-> hs]

\* HelmGuard answering from what __init__ stored, without a check of its own.
HelmGuard_AtConstruction(h) ==
    [raised |-> "",
     error |-> IF dependencies_available THEN "" ELSE "Helm is not available on this system",
     calls |-> <<>>]

\* The guard the three Helm tools start with: [raised, error, calls].
HelmGuard(h) ==
    LET avail == check_tool_availability("helm", h) IN
    [raised |-> avail.raised,
     error |-> IF avail.value = Some(FALSE) THEN "Helm is not available on this system"
               ELSE "",
     calls |-> avail.calls]

install_helm_chart(a, o, h, hs) ==
    LET guard == HelmGuard(h)
        repo == HelmRepoStep(a, o, h, hs)
        ns == HelmNamespaceStep(a, o, h, repo.helm)
        run == RunKind("helm", h, IF ReleaseName \in ns.helm.releases THEN "fail" ELSE o.run)
        before == guard.calls \o repo.calls \o ns.calls
        calls == Append(before, CmdCall("helm install", a.namespace, run, Some(ChartRef(a))))
    IN  IF guard.raised # "" THEN HelmOutcome(Raised(guard.raised), guard.calls, hs)
        ELSE IF guard.error # "" THEN HelmOutcome(Err(guard.error), guard.calls, hs)
        ELSE IF repo.error # ""
        THEN HelmOutcome(Err(repo.error), guard.calls \o repo.calls, repo.helm)
        ELSE IF ns.error # "" THEN HelmOutcome(Err(ns.error), before, ns.helm)
        ELSE IF run # "ok"
        THEN HelmOutcome(Err(HelmError(run, "Failed to install Helm chart")), calls, ns.helm)
        ELSE HelmOutcome(Ok(ChartRef(a)), calls,
                         [ns.helm EXCEPT !.releases = @ \cup {ReleaseName}])

upgrade_helm_chart(a, o, h, hs) ==
    LET guard == HelmGuard(h)
        repo == HelmRepoStep(a, o, h, hs)
        run == RunKind("helm", h, IF ReleaseName \in hs.releases THEN o.run ELSE "fail")
        before == guard.calls \o repo.calls
        calls == Append(before, CmdCall("helm upgrade", a.namespace, run, Some(ChartRef(a))))
    IN  IF guard.raised # "" THEN HelmOutcome(Raised(guard.raised), guard.calls, hs)
        ELSE IF guard.error # "" THEN HelmOutcome(Err(guard.error), guard.calls, hs)
        ELSE IF repo.error # "" THEN HelmOutcome(Err(repo.error), before, repo.helm)
        ELSE IF run # "ok"
        THEN HelmOutcome(Err(HelmError(run, "Failed to upgrade Helm chart")), calls, repo.helm)
        ELSE HelmOutcome(Ok(ChartRef(a)), calls, repo.helm)

uninstall_helm_chart(a, o, h, hs) ==
    LET guard == HelmGuard(h)
        run == RunKind("helm", h, IF ReleaseName \in hs.releases THEN o.run ELSE "fail")
        calls == Append(guard.calls, CmdCall("helm uninstall", a.namespace, run, None))
    IN  IF guard.raised # "" THEN HelmOutcome(Raised(guard.raised), guard.calls, hs)
        ELSE IF guard.error # "" THEN HelmOutcome(Err(guard.error), guard.calls, hs)
        ELSE IF run # "ok"
        THEN HelmOutcome(Err(HelmError(run, "Failed to uninstall Helm chart")), calls, hs)
        ELSE HelmOutcome(Ok("uninstalled"), calls,
                         [hs EXCEPT !.releases = @ \ {ReleaseName}])

\* A Helm tool's invocation: helm's state is what is remembered as before and after.
HelmInvoke(tool, a, out) ==
    /\ helm' = out.helm
    /\ last' = Invocation(tool, a, out, helm, out.helm)
    /\ UNCHANGED <<deployments, services, host, kubeconfig>>

InstallHelmChart ==
    \E a \in HelmArgs, o \in HelmOracle :
        HelmInvoke("install_helm_chart", a, install_helm_chart(a, o, host, helm))

UpgradeHelmChart ==
    \E a \in HelmArgs, o \in {x \in HelmOracle : x.ns_get = "ok" /\ x.ns_create = "ok"} :
        HelmInvoke("upgrade_helm_chart", a, upgrade_helm_chart(a, o, host, helm))

UninstallHelmChart ==
    \E a \in [namespace : {"default", "apps"}], o \in [run : CmdFaults] :
        HelmInvoke("uninstall_helm_chart", a, uninstall_helm_chart(a, o, host, helm))

----------------------------------------------------------------------------
(* The remaining tools, which read the cluster or run one command and      *)
(* change nothing the model keeps, and scale_deployment.                   *)

\* The tools made of config.load_kube_config() and one list or read request.
ReadTools ==
    {"get_pods", "get_namespaces", "get_services", "get_nodes", "get_configmaps",
     "get_secrets", "get_rbac_roles", "get_cluster_roles", "get_events", "health_check",
     "get_pod_events", "check_pod_health", "get_deployments", "get_logs"}

\* read_tool with a second attempt after a failed request.
read_tool_Retry(tool, o) ==
    LET c == Call(tool, NoneStr, None, IF o.call = "ok" THEN Answer("ok", 200, None)
                                       ELSE Faulty(o.call))
    IN  IF o.config # "ok" THEN [result |-> Err("str(e)"), calls |-> <<>>]
        ELSE IF o.call = "ok" THEN [result |-> Ok(tool), calls |-> <<c>>]
        ELSE [result |-> Err("str(e)"), calls |-> <<c, c>>]

\* try: load_kube_config(); one request; return the list / except Exception
read_tool(tool, o) ==
    LET c == Call(tool, NoneStr, None, IF o.call = "ok" THEN Answer("ok", 200, None)
                                       ELSE Faulty(o.call))
    IN  IF o.config # "ok" THEN [result |-> Err("str(e)"), calls |-> <<>>]
        ELSE IF o.call = "ok" THEN [result |-> Ok(tool), calls |-> <<c>>]
        ELSE [result |-> Err("str(e)"), calls |-> <<c>>]

\* A tool that changes nothing the model keeps.
Report(tool, a, out) ==
    /\ last' = Invocation(tool, a, out, <<>>, <<>>)
    /\ UNCHANGED <<deployments, services, host, helm, kubeconfig>>

ReadTool == \E tool \in ReadTools, o \in SimpleOracle : Report(tool, <<>>, read_tool(tool, o))

\* kubectl_explain and get_api_resources: one kubectl run under `except Exception`.
CommandTools == {"kubectl_explain", "get_api_resources"}
command_tool(tool, o, h) ==
    LET kind == RunKind("kubectl", h, o)
        calls == <<CmdCall(tool, NoneStr, kind, IF kind = "ok" THEN Some("output") ELSE None)>>
    IN  IF kind = "ok" THEN [result |-> Ok("output"), calls |-> calls]
        ELSE [result |-> Err("str(e)"), calls |-> calls]

CommandTool ==
    \E tool \in CommandTools, o \in CmdFaults : Report(tool, <<>>, command_tool(tool, o, host))

\* port_forward: subprocess.Popen starts kubectl and does not wait for it, so
\* only a kubectl that cannot be started is an error.
port_forward(h) ==
    LET kind == RunKind("kubectl", h, "ok")
        started == kind \in {"ok", "CalledProcessError"}
        calls == <<CmdCall("kubectl port-forward", "default",
                           IF started THEN "ok" ELSE kind, None)>>
    IN  IF started THEN [result |-> Ok("process_pid"), calls |-> calls]
        ELSE [result |-> Err("str(e)"), calls |-> calls]

PortForward == Report("port_forward", <<>>, port_forward(host))

\* scale_deployment: read the Deployment, patch it with the replicas changed.
ScaleOracle == {o \in [config : {"ok", "error"}, read : Faults, patch : Faults] :
                   AtMostOneFault(o)}
scale_deployment(a, o, deps) ==
    LET rd == ApiReadDeployment(deps, a.namespace, o.read)
        c1 == <<Call("read_namespaced_deployment", a.namespace, None, rd)>>
        pt == IF o.patch = "ok" THEN Answer("ok", 200, None) ELSE Faulty(o.patch)
        c2 == Append(c1, Call("patch_namespaced_deployment", a.namespace, None, pt))
    IN  IF o.config # "ok" THEN [result |-> Err("str(e)"), calls |-> <<>>]
        ELSE IF rd.kind # "ok" THEN [result |-> Err("str(e)"), calls |-> c1]
        ELSE IF pt.kind # "ok" THEN [result |-> Err("str(e)"), calls |-> c2]
        ELSE [result |-> Ok("scaled"), calls |-> c2]

ScaleDeployment ==
    \E a \in [namespace : Namespaces], o \in ScaleOracle :
        Report("scale_deployment", a, scale_deployment(a, o, deployments))

----------------------------------------------------------------------------
(* SpecBinding: several clusters, one per context.  The tools that use the *)
(* Kubernetes client call config.load_kube_config() at each invocation and *)
(* build a client from what it loaded; switch_context and connect_to_gke   *)
(* change which context the kubeconfig makes current.                      *)

\* load_kube_config() pinned to one context, whatever the current one is.
load_kube_config_Pinned(kc) ==
    IF kc.shape = "list" /\ kc.current \in kc.contexts
    THEN [error |-> FALSE,
          context |-> IF "minikube" \in kc.contexts THEN "minikube" ELSE kc.current]
    ELSE [error |-> TRUE, context |-> NoneStr]

\* config.load_kube_config(): the client configuration of the kubeconfig's
\* current context; a ConfigException without a kubeconfig that has one.
load_kube_config(kc) ==
    IF kc.shape = "list" /\ kc.current \in kc.contexts
    THEN [error |-> FALSE, context |-> kc.current]
    ELSE [error |-> TRUE, context |-> NoneStr]

\* The oracle of a handler whose load_kube_config() reads kc.
WithConfig(o, kc) == [o EXCEPT !.config = IF load_kube_config(kc).error THEN "error" ELSE @]

\* The requests of a client are sent to the cluster of the context it loaded.
Addressed(calls, ctx) == [i \in DOMAIN calls |-> [call |-> calls[i], context |-> ctx]]

\* The Deployments the client of this invocation reads and writes.
Loaded(kc, cs) ==
    LET cfg == load_kube_config(kc) IN
    IF cfg.error THEN [ns \in Namespaces |-> None] ELSE cs[cfg.context]

\* An invocation of a client tool: out is what the handler returned on the
\* loaded cluster, deps that cluster's Deployments after it.
Bound(tool, a, out, deps) ==
    LET cfg == load_kube_config(kubeconfig)
        after == IF cfg.error THEN clusters ELSE [clusters EXCEPT ![cfg.context] = deps]
    IN  /\ clusters' = after
        /\ last' = [tool |-> tool, args |-> a, result |-> out.result,
                    calls |-> Addressed(out.calls, cfg.context),
                    before |-> clusters, after |-> after]
        /\ UNCHANGED <<deployments, services, host, helm, kubeconfig>>

BoundTools == {"get_pods", "get_deployments"}

BoundRead ==
    \E tool \in BoundTools, o \in SimpleOracle :
        Bound(tool, <<>>, read_tool(tool, WithConfig(o, kubeconfig)),
              Loaded(kubeconfig, clusters))

BoundCreate ==
    \E a \in [namespace : Namespaces], o \in SimpleOracle :
        LET out == create_deployment(a, WithConfig(o, kubeconfig),
                                     Loaded(kubeconfig, clusters))
        IN  Bound("create_deployment", a, out, out.deployments)

BoundScale ==
    \E a \in [namespace : Namespaces], o \in ScaleOracle :
        Bound("scale_deployment", a,
              scale_deployment(a, WithConfig(o, kubeconfig), Loaded(kubeconfig, clusters)),
              Loaded(kubeconfig, clusters))

BoundDelete ==
    \E a \in [resource_type : {"deployment", "pod"}, namespace : Namespaces],
       o \in SimpleOracle :
        LET out == delete_resource(a, WithConfig(o, kubeconfig),
                                   Loaded(kubeconfig, clusters), services)
        IN  Bound("delete_resource", a, out, out.deployments)

InitBinding ==
    /\ PlainCluster
    /\ host = AllOk
    /\ helm = NoHelm
    /\ kubeconfig \in {kc \in Kubeconfigs : WellFormed(kc) /\ kc.shape \in {"absent", "list"}}
    /\ last = NoInvocation
    /\ phase = 0
    /\ prev = NoInvocation
    /\ selected = NoSelection
    /\ dependencies_available = check_dependencies(host).value
    /\ running = NoneRunning
    /\ clusters \in [Contexts -> [Namespaces -> {None, Some(Some(L1))}]]

\* An invocation whose effect on the current context is kept.
Tracked(Tool) ==
    /\ Tool
    /\ selected' = Selection(selected, last')
    /\ UNCHANGED <<phase, prev, dependencies_available, running>>

SwitchBetween == SwitchContext /\ UNCHANGED clusters
ConnectBetween == ConnectToGke /\ UNCHANGED clusters

NextBinding ==
    \/ Tracked(SwitchBetween)
    \/ Tracked(ConnectBetween)
    \/ Tracked(BoundRead)
    \/ Tracked(BoundCreate)
    \/ Tracked(BoundScale)
    \/ Tracked(BoundDelete)

SpecBinding == InitBinding /\ [][NextBinding]_vars

----------------------------------------------------------------------------
(* SpecRace: two invocations of expose_deployment_with_service for the     *)
(* same service name run at the same time (two servers against one         *)
(* cluster, or two requests of one server).  The API server answers one    *)
(* request at a time, so an invocation advances by one request per step:   *)
(* the read of the Deployment (with what the handler computes up to the    *)
(* next request), the existence read of the Service, the patch or create.  *)
(* load_kube_config() is taken to succeed.                                 *)

Callers == {1, 2}
RaceArgs == {a \in ExposeArgs : a.namespace \in Namespaces /\ a.target_port # None}
RaceFaults == {"ok", "api_error"}

\* An invocation not yet made.  found is what the existence read gave
\* ("unread" before it), faulted whether a request of it was answered a 500.
Idle ==
    [pc |-> "idle", args |-> <<>>, selector |-> {}, existing |-> None, found |-> "unread",
     faulted |-> FALSE, result |-> <<>>, calls |-> <<>>]

Return(r, result, calls) == [r EXCEPT !.pc = "done", !.result = result, !.calls = calls]

RaceFrame ==
    UNCHANGED <<deployments, host, helm, kubeconfig, last, phase, prev, selected, clusters,
                dependencies_available>>

\* Step 1 and the building of the body: up to the existence read.
ReadDeploymentStep(p) ==
    /\ running[p].pc = "idle"
    /\ \E a \in RaceArgs, fault \in RaceFaults :
          LET dep == ApiReadDeployment(deployments, a.namespace, fault)
              calls == <<Call("read_namespaced_deployment", a.namespace, None, dep)>>
              r == [running[p] EXCEPT !.args = a, !.faulted = fault # "ok"]
          IN  running' = [running EXCEPT ![p] =
                  IF dep.kind # "ok" THEN Return(r, Err(ReadFailure(dep)), calls)
                  ELSE IF a.selector_labels = None /\ Falsy(dep.value[1])
                  THEN Return(r, Err("Failed to determine selector labels"), calls)
                  ELSE IF ServicePort(a) = None THEN Return(r, Err("str(e)"), calls)
                  ELSE [r EXCEPT !.pc = "read_service", !.calls = calls,
                                 !.selector = SelectorLabels(a, dep.value[1])]]
    /\ UNCHANGED services
    /\ RaceFrame

\* The existence read: existing_service is the Service read, or None on a 404.
ReadServiceStep(p) ==
    /\ running[p].pc = "read_service"
    /\ \E fault \in RaceFaults :
          LET r == running[p]
              rd == ApiReadService(services, r.args.namespace, fault)
              calls == Append(r.calls,
                              Call("read_namespaced_service", r.args.namespace, None, rd))
          IN  running' = [running EXCEPT ![p] =
                  IF rd.kind = "ApiException" /\ rd.status # 404
                  THEN Return([r EXCEPT !.faulted = TRUE], Err("Kubernetes API error"), calls)
                  ELSE [r EXCEPT !.pc = "write", !.calls = calls,
                                 !.existing = ExistingService(rd),
                                 !.found = IF rd.kind = "ok" THEN "present" ELSE "absent"]]
    /\ UNCHANGED services
    /\ RaceFrame

\* The patch or the create, and the return.
WriteStep(p) ==
    /\ running[p].pc = "write"
    /\ \E fault \in RaceFaults :
          LET r == running[p]
              body == ServiceBody(r.args, r.selector)
              w == WriteService(r.existing, services, r.args.namespace, body, fault)
              calls == Append(r.calls, Call(w.op, r.args.namespace, Some(body), w.ans))
              f == [r EXCEPT !.faulted = @ \/ fault # "ok"]
          IN  /\ services' = w.services
              /\ running' = [running EXCEPT ![p] =
                    IF w.ans.kind = "ok"
                    THEN Return(f, Ok(ServiceView(w.ans.value[1])), calls)
                    ELSE Return(f, Err("Kubernetes API error"), calls)]
    /\ RaceFrame

InitRace ==
    /\ PlainCluster
    /\ host = AllOk
    /\ helm = NoHelm
    /\ kubeconfig = MinikubeOnly
    /\ last = NoInvocation
    /\ phase = 0
    /\ prev = NoInvocation
    /\ selected = NoSelection
    /\ clusters = NoClusters
    /\ dependencies_available = check_dependencies(host).value
    /\ running = [p \in Callers |-> Idle]

NextRace ==
    \/ \E p \in Callers : ReadDeploymentStep(p)
    \/ \E p \in Callers : ReadServiceStep(p)
    \/ \E p \in Callers : WriteStep(p)

SpecRace == InitRace /\ [][NextRace]_vars

----------------------------------------------------------------------------
(* SpecAll: every registered tool, invoked on a machine where at most one  *)
(* binary is not in order, up to MaxOps invocations.  The server is        *)
(* constructed with kubectl and helm in order or with one of them missing; *)
(* before the first invocation a binary may be installed, removed or       *)
(* replaced.                                                               *)

MaxOps == 1

InitAll ==
    /\ PlainCluster
    /\ \E t \in HostTools, b \in {"ok", "missing"} : host = [AllOk EXCEPT ![t] = b]
    /\ ~check_dependencies(host).raised
    /\ helm \in {NoHelm, [NoHelm EXCEPT !.releases = {ReleaseName}]}
    /\ kubeconfig = MinikubeOnly
    /\ last = NoInvocation
    /\ phase = 0
    /\ prev = NoInvocation
    /\ selected = NoSelection
    /\ dependencies_available = check_dependencies(host).value
    /\ running = NoneRunning
    /\ clusters = NoClusters

\* An invocation that is counted.
Counted(Tool) ==
    /\ phase < MaxOps
    /\ phase' = phase + 1
    /\ UNCHANGED <<prev, selected, clusters, dependencies_available, running>>
    /\ Tool

\* Between the server's construction and its first invocation one binary of a
\* machine in order is changed, or the machine is put in order.
Replaced ==
    /\ phase = 0
    /\ phase < MaxOps
    /\ (host = AllOk /\ dependencies_available) \/ host' = AllOk
    /\ \E t \in Binaries, b \in BinaryStates : host' = [AllOk EXCEPT ![t] = b]
    /\ UNCHANGED <<deployments, services, helm, kubeconfig, last, phase, prev, selected,
                   clusters, dependencies_available, running>>

NextAll ==
    \/ Replaced
    \/ Counted(ReadTool)
    \/ Counted(Expose)
    \/ Counted(CreateDeployment)
    \/ Counted(DeleteResource)
    \/ Counted(ScaleDeployment)
    \/ Counted(InstallHelmChart)
    \/ Counted(UpgradeHelmChart)
    \/ Counted(UninstallHelmChart)
    \/ Counted(GetResourceUsage)
    \/ Counted(ConnectToGke)
    \/ Counted(SwitchContext)
    \/ Counted(GetCurrentContext)
    \/ Counted(CommandTool)
    \/ Counted(PortForward)

SpecAll == InitAll /\ [][NextAll]_vars

----------------------------------------------------------------------------
(* Reading the last invocation.                                            *)

IsExpose == last.tool = "expose_deployment_with_service"
CallsOf(op) == {i \in DOMAIN last.calls : last.calls[i].op = op}
Issued(op) == CallsOf(op) # {}
WriteCalls == CallsOf("create_namespaced_service") \cup CallsOf("patch_namespaced_service")
Succeeded == "success" \in DOMAIN last.result /\ last.result.success
Failed == "success" \in DOMAIN last.result /\ ~last.result.success

----------------------------------------------------------------------------
(* C3: once the Deployment was read and the selector settled, the tool     *)
(* creates the Service exactly when the existence read answers 404 (no     *)
(* such Service), patches it exactly when the read finds one, and on any   *)
(* other outcome of the read fails without a create or a patch.            *)
C3_CreateOrPatch ==
    (IsExpose /\ Issued("read_namespaced_service")) =>
        LET rd == last.calls[CHOOSE i \in CallsOf("read_namespaced_service") : TRUE]
            before == last.before[last.args.namespace]
        IN  /\ (rd.kind = "ApiException" /\ rd.status = 404) =>
                 /\ before = None
                 /\ Issued("create_namespaced_service")
                 /\ ~Issued("patch_namespaced_service")
            /\ rd.kind = "ok" =>
                 /\ before # None
                 /\ Issued("patch_namespaced_service")
                 /\ ~Issued("create_namespaced_service")
            /\ (rd.kind \notin {"ok", "ApiException"} \/ rd.status \notin {200, 404}) =>
                 /\ Failed
                 /\ WriteCalls = {}
                 /\ services = last.before
            /\ Issued("create_namespaced_service") => before = None
            /\ Issued("patch_namespaced_service") => before # None

\* An existing Service was found and patched.
C3_Witness ==
    /\ IsExpose
    /\ Issued("patch_namespaced_service")
    /\ last.before[last.args.namespace] # None
    /\ Succeeded

\* No request of invocation inv was made to fail by the oracle, and the
\* kubeconfig loaded.
NoFaultIn(inv) ==
    /\ \A i \in DOMAIN inv.calls :
           inv.calls[i].kind # "Exception" /\ inv.calls[i].status # 500
    /\ ~(inv.calls = <<>> /\ ~inv.result.success /\ inv.result.error = "str(e)")

\* Arguments and a cluster with which an exposure can succeed: the namespace is
\* given and holds the Deployment, a selector can be settled, a port is given.
Exposable(a) ==
    /\ a.namespace \in Namespaces
    /\ deployments[a.namespace] # None
    /\ (a.selector_labels # None \/ ~Falsy(deployments[a.namespace][1]))
    /\ (a.port # None \/ a.target_port # None)

(* C4: run twice in sequence with the same arguments against an existing   *)
(* Deployment (no request failing, arguments with which an exposure can    *)
(* succeed), both runs return success = true and the Service after the     *)
(* second run equals the Service after the first; in general a second run  *)
(* succeeds exactly when the first did and leaves the Services alone.      *)
C4_Idempotent ==
    (phase = 2 /\ NoFaultIn(prev) /\ NoFaultIn(last)) =>
        /\ Exposable(last.args) =>
              /\ prev.result.success
              /\ last.result.success
              /\ last.result.payload = prev.result.payload
        /\ last.result.success = prev.result.success
        /\ services = prev.after

\* Both runs succeeded and the first one changed the cluster.
C4_Witness ==
    /\ phase = 2
    /\ prev.result.success
    /\ last.result.success
    /\ prev.after # prev.before
    /\ services = prev.after

C6_DeploymentNotFound ==
    ( /\ IsExpose
      /\ Issued("read_namespaced_deployment")
      /\ last.calls[1].kind = "ApiException"
      /\ last.calls[1].status = 404 ) =>
        /\ deployments[last.args.namespace] = None
        /\ Failed
        /\ last.result.error = "Deployment not found in namespace"
        /\ Len(last.calls) = 1
        /\ services = last.before

\* The Deployment is missing and the caller gave selector_labels.
C6_Witness ==
    /\ IsExpose
    /\ last.args.selector_labels # None
    /\ Len(last.calls) = 1
    /\ last.calls[1].status = 404
    /\ Failed

NoFault == NoFaultIn(last)

(* C7: with namespace omitted the tool works on the Deployment and the     *)
(* Service of namespace "default"; with service_type omitted the Service   *)
(* it creates is of type ClusterIP.                                        *)
C7_OmittedDefaults ==
    IsExpose =>
        /\ ( /\ last.args.namespace = NoneStr
             /\ NoFault
             /\ deployments["default"] = Some(Some(L1))
             /\ last.args.target_port # None ) =>
               /\ Succeeded
               /\ \A i \in DOMAIN last.calls : last.calls[i].namespace = "default"
               /\ services["default"] # None
        /\ \A i \in CallsOf("create_namespaced_service") :
               (last.args.service_type = NoneStr /\ last.calls[i].kind = "ok") =>
                   services[last.args.namespace][1].type = "ClusterIP"

UsagePastGuard ==
    /\ last.tool = "get_resource_usage"
    /\ last.calls # <<>>
    /\ last.calls[1].kind = "ok"

JsonRun(what) == CallsOf("kubectl top " \o what \o " -o json")
TextRun(what) == CallsOf("kubectl top " \o what)
UsageOf(what) ==
    IF what = "pods" THEN last.result.payload.pod_usage ELSE last.result.payload.node_usage

IsConnect == last.tool = "connect_to_gke"

C10_AlreadyLoggedIn ==
    /\ ( /\ IsConnect
         /\ last.before.shape = "list"
         /\ ContextName(last.args) \in last.before.contexts ) =>
           /\ last.result = Ok("Already logged in")
           /\ last.calls = <<>>
           /\ kubeconfig = last.before
    /\ ( /\ IsConnect
         /\ prev.tool = "connect_to_gke"
         /\ prev.args = last.args
         /\ prev.result.success ) =>
           /\ Succeeded
           /\ last.calls = <<>>
           /\ kubeconfig = last.before

\* gcloud logged in to c1; then, with another context current, a second
\* connect_to_gke for c1 found the context and changed nothing.
C10_Witness ==
    /\ IsConnect
    /\ last.calls = <<>>
    /\ Succeeded
    /\ ContextName(last.args) \in kubeconfig.contexts
    /\ kubeconfig.current # ContextName(last.args)
    /\ kubeconfig.current # ""

(* C1: whatever a tool's call-outs raise, the invocation returns a result  *)
(* with a boolean success and, when that is false, an error; no exception  *)
(* leaves a tool.                                                          *)
C1_Envelope ==
    last.tool # "none" =>
        /\ "raised" \notin DOMAIN last.result
        /\ "success" \in DOMAIN last.result
        /\ last.result.success \in BOOLEAN
        /\ ~last.result.success => "error" \in DOMAIN last.result

(* C2 as stated: every invocation of every tool makes exactly one          *)
(* call-out (one API request or one subprocess).                           *)
C2_ExactlyOneCallOut == last.tool # "none" => Len(last.calls) = 1

\* The tools written as one request or one command.
SingleCallTools ==
    ReadTools \cup CommandTools \cup
    {"create_deployment", "delete_resource", "switch_context", "get_current_context",
     "port_forward", "connect_to_gke"}

(* C2 as amended: a single-call tool makes at most one call-out, and       *)
(* exactly one when it succeeds (delete_resource and connect_to_gke can    *)
(* end without any); the other tools make a bounded sequence:              *)
(* scale_deployment and uninstall_helm_chart at most 2,                    *)
(* expose_deployment_with_service at most 3, upgrade_helm_chart at most 4, *)
(* get_resource_usage at most 5, install_helm_chart at most 6.             *)
C2_CallOutBudget ==
    LET n == Len(last.calls) IN
    /\ last.tool \in SingleCallTools =>
          /\ n <= 1
          /\ (Succeeded /\ last.tool # "connect_to_gke") => n = 1
    /\ last.tool = "scale_deployment" => n <= 2 /\ (Succeeded => n = 2)
    /\ last.tool = "uninstall_helm_chart" => n <= 2 /\ (Succeeded => n = 2)
    /\ last.tool = "expose_deployment_with_service" => n <= 3 /\ (Succeeded => n = 3)
    /\ last.tool = "upgrade_helm_chart" => n <= 4 /\ (Succeeded => n \in {2, 4})
    /\ last.tool = "get_resource_usage" => n <= 5 /\ (Succeeded => n >= 3)
    /\ last.tool = "install_helm_chart" => n <= 6 /\ (Succeeded => n >= 3)

\* install_helm_chart ran all six of its commands.
C2_Witness ==
    /\ last.tool = "install_helm_chart"
    /\ Len(last.calls) = 6
    /\ Succeeded


(* C11: connect_to_gke for a cluster whose context the kubeconfig does not *)
(* hold (no file, an empty file, no contexts entry, a null one, or only    *)
(* other contexts) runs `gcloud container clusters get-credentials` for    *)
(* that cluster.                                                           *)
ContextAbsent(kc, a) ==
    \/ kc.shape \in {"absent", "empty", "nocontexts", "nullcontexts"}
    \/ kc.shape = "list" /\ ContextName(a) \notin kc.contexts

C11_GcloudWhenAbsent ==
    (IsConnect /\ ContextAbsent(last.before, last.args)) =>
        /\ Len(last.calls) = 1
        /\ last.calls[1].op = "gcloud container clusters get-credentials"
        /\ last.calls[1].namespace = last.args.cluster_name


(* C12 as stated: once a switch_context(c) has succeeded, a                *)
(* get_current_context that succeeds returns the c of the last successful  *)
(* switch_context; a switch_context that fails leaves the kubeconfig, its  *)
(* current context included, as it was.                                    *)
FailedSwitchKeeps ==
    (last.tool = "switch_context" /\ Failed) => kubeconfig = last.before

C12_UntilNextSwitch ==
    /\ ( /\ last.tool = "get_current_context"
         /\ Succeeded
         /\ selected.switched # NoneStr ) => last.result.payload = selected.switched
    /\ FailedSwitchKeeps

(* C12 as amended: a get_current_context that succeeds returns the context *)
(* last made current, by a successful switch_context or by a               *)
(* connect_to_gke that logged in with gcloud (the context of its cluster); *)
(* a switch_context that fails leaves the kubeconfig as it was.            *)
C12_ContextRoundTrip ==
    /\ ( /\ last.tool = "get_current_context"
         /\ Succeeded
         /\ selected.by # "none" ) => last.result.payload = selected.context
    /\ FailedSwitchKeeps

\* A successful switch_context to another context than the current one was
\* followed by a get_current_context that returned it.
C12_Witness ==
    /\ prev.tool = "switch_context"
    /\ prev.result.success
    /\ prev.before.current # prev.args.context_name
    /\ last.tool = "get_current_context"
    /\ Succeeded
    /\ last.result.payload = prev.args.context_name


(* C13: a tool that uses the Kubernetes client loads the kubeconfig at     *)
(* each invocation: after a switch_context(c) that succeeded, and while c  *)
(* is the current context, every request of get_pods, get_deployments,     *)
(* create_deployment, scale_deployment and delete_resource is sent to the  *)
(* cluster of c, and no other cluster (the one selected before included)   *)
(* is changed; the same holds for the context a gcloud login made current. *)
ClientTools == BoundTools \cup {"create_deployment", "scale_deployment", "delete_resource"}

C13_NoClusterBinding ==
    (last.tool \in ClientTools /\ selected.by # "none") =>
        /\ \A i \in DOMAIN last.calls : last.calls[i].context = selected.context
        /\ \A ctx \in Contexts \ {selected.context} : last.after[ctx] = last.before[ctx]
        /\ Succeeded => last.calls # <<>>

\* After a switch_context from one context to another, create_deployment
\* created its Deployment in the cluster of the new context.
C13_Witness ==
    /\ selected.by = "switch_context"
    /\ selected.previous \in Contexts \ {selected.context}
    /\ last.tool = "create_deployment"
    /\ Succeeded
    /\ last.calls[1].context = selected.context
    /\ last.after[selected.context] # last.before[selected.context]
    /\ last.after[selected.previous] = last.before[selected.previous]


(* C14: a Helm tool invoked while helm is not available (not on the PATH,  *)
(* or its version run fails) returns success = false with "Helm is not     *)
(* available on this system", and get_resource_usage invoked while kubectl *)
(* is not available returns "kubectl is not available on this system";     *)
(* nothing but the version check is run and no repo, namespace or release  *)
(* is changed.  The check is made at each invocation: with the binary in   *)
(* order the tool does not answer so, whatever dependencies_available is.  *)
HelmTools == {"install_helm_chart", "upgrade_helm_chart", "uninstall_helm_chart"}
GuardedTools == HelmTools \cup {"get_resource_usage"}
GuardOf(tool) ==
    IF tool \in HelmTools
    THEN [binary |-> "helm", version |-> "helm version",
          error |-> "Helm is not available on this system"]
    ELSE [binary |-> "kubectl", version |-> "kubectl version --client",
          error |-> "kubectl is not available on this system"]

\* What the invocation's own check found: nothing on the PATH (no command was
\* run) or a version run that failed; or a version run that exited 0.
FoundNotAvailable(inv) ==
    inv.calls = <<>> \/ inv.calls[1].kind \in {"CalledProcessError", "FileNotFoundError"}
FoundAvailable(inv) == inv.calls # <<>> /\ inv.calls[1].kind = "ok"

C14_AvailabilityGuard ==
    last.tool \in GuardedTools =>
        LET g == GuardOf(last.tool) IN
        /\ last.calls # <<>> => last.calls[1].op = g.version
        /\ FoundNotAvailable(last) =>
              /\ last.result = Err(g.error)
              /\ last.after = last.before
              /\ Len(last.calls) <= 1
        /\ FoundAvailable(last) => last.result # Err(g.error)

\* The server was constructed with every dependency available; helm was
\* removed afterwards and install_helm_chart answered that it is not available.
C14_Witness ==
    /\ dependencies_available
    /\ last.tool = "install_helm_chart"
    /\ host["helm"] \in {"missing", "broken", "vanished"}
    /\ FoundNotAvailable(last)
    /\ last.result = Err("Helm is not available on this system")
    /\ helm = last.before


(* C15: past the availability guard, install_helm_chart and                *)
(* upgrade_helm_chart given a non-empty repo that does not have exactly    *)
(* one '=' return success = false with "Repository format should be        *)
(* 'repo_name=repo_url'" and run no command (no helm repo add or update,   *)
(* no namespace command, no helm install or upgrade) and change nothing;   *)
(* given a repo with exactly one '=' they never return that error, and the *)
(* chart handed to helm install/upgrade is repo_name/chart when the chart  *)
(* has no '/', the chart unchanged when it has one.                        *)
EqualsSigns(repo) == {i \in DOMAIN repo[1] : repo[1][i] = "="}
RepoNameOf(repo) == Join(SubSeq(repo[1], 1, (CHOOSE i \in EqualsSigns(repo) : TRUE) - 1))
FormatError == Err("Repository format should be 'repo_name=repo_url'")
ChartRuns == CallsOf("helm install") \cup CallsOf("helm upgrade")

C15_RepoFormat ==
    ( /\ last.tool \in {"install_helm_chart", "upgrade_helm_chart"}
      /\ FoundAvailable(last)
      /\ last.args.repo \notin {None, Some(<<>>)} ) =>
        IF Cardinality(EqualsSigns(last.args.repo)) # 1
        THEN /\ last.result = FormatError
             /\ \A i \in DOMAIN last.calls : last.calls[i].op = "helm version"
             /\ last.after = last.before
        ELSE LET chart == IF \E i \in DOMAIN last.args.chart : last.args.chart[i] = "/"
                          THEN Join(last.args.chart)
                          ELSE RepoNameOf(last.args.repo) \o "/" \o Join(last.args.chart)
             IN  /\ last.result # FormatError
                 /\ \A i \in ChartRuns : last.calls[i].body = Some(chart)
                 /\ Succeeded => ChartRuns # {} /\ last.result.payload = chart

\* install_helm_chart with repo "bitnami=https://charts.example" and chart
\* "nginx" installed bitnami/nginx.
C15_Witness ==
    /\ last.tool = "install_helm_chart"
    /\ last.args.repo = Some(<<"bitnami", "=", "https://charts.example">>)
    /\ last.args.chart = <<"nginx">>
    /\ Succeeded
    /\ last.result.payload = "bitnami/nginx"
    /\ \E i \in CallsOf("helm install") : last.calls[i].body = Some("bitnami/nginx")


(* C16: two invocations of expose_deployment_with_service for the same     *)
(* service name, absent at first, whose existence reads both come before   *)
(* either create (both read a 404), and whose requests are answered        *)
(* without a server error, both return success = true, and the Service is  *)
(* the one requested by one of them.                                       *)
BothReadAbsent ==
    \A p \in Callers :
        /\ running[p].pc = "done"
        /\ running[p].found = "absent"
        /\ ~running[p].faulted

C16_BothSucceed ==
    BothReadAbsent =>
        /\ \A p \in Callers : running[p].result.success
        /\ \E p \in Callers :
              services[running[p].args.namespace] =
                  Some(StoredService(ServiceBody(running[p].args, running[p].selector)))

====
